---- MODULE Spec2Model ----
(***************************************************************************)
(* Authentication and token-lifecycle engine of pelagornis-dev/oauth.      *)
(*                                                                         *)
(* The module holds the state machines of the engine over one set of       *)
(* variables, each with its own specification:                             *)
(*   SpecLegacy, SpecAged, SpecGrant   the legacy OAuth token endpoint     *)
(*               (AuthController and AuthUseCase over the persisted        *)
(*               access/refresh records),                                  *)
(*   SpecAuth, SpecJwt, SpecGate, SpecLogout, SpecAccount   the JWT flow   *)
(*               (LoginUseCase, GoogleAuthUseCase, RefreshTokenUseCase,    *)
(*               LogoutUseCase, AuthenticationMiddleware),                 *)
(*   SpecSingle, SpecNotify   the single-use tokens and notifications      *)
(*               (ConfirmResetPasswordUseCase, VerifyEmailUseCase),        *)
(*   SpecRate, SpecRateFair, SpecLogin   the RateLimitMiddleware,          *)
(*   SpecSign    the JwtTokenService,                                      *)
(*   SpecDatabase, SpecEmail   DatabaseConnection and the e-mail queue.    *)
(* Every await of the source is a step boundary: the steps of concurrent   *)
(* requests interleave exactly there.                                      *)
(* Dates are natural numbers: seconds in the token machines, milliseconds  *)
(* in the rate limiter.                                                    *)
(***************************************************************************)
EXTENDS Integers, Naturals, Sequences, FiniteSets, Bags, TLC

\* ------------------------------------------------------------------ bounds
MaxTick == 1
MaxUuid == 3
MaxLReq == 2
MaxAReq == 2
MaxPairs == 3
MaxTok == 2
MaxSReq == 3
MaxRReq == 2
MaxArrivals == 3
MaxLogins == 5
MaxDCall == 2
MaxMail == 3

\* ------------------------------------------------------- program constants
\* AuthUseCase.generateTokens: 30 * 24 * 60 * 60 * 1000 ms, in seconds
LegacyRefreshTtl == 2592000

\* null / undefined of the source
Null == [null |-> TRUE]

Clients == {"c1"}
LegacyUsers == {"u1", "u2"}
Uuids == 1..MaxUuid
LReqs == 1..MaxLReq

VARIABLES
  now,           \* the clock read by new Date() / Date.now(), in seconds
  ticks,         \* number of clock advances so far
  legacyTokens,  \* TokenModel collection of the legacy flow
  nextUuid,      \* next value uuidv4() returns
  lreq,          \* legacy refresh requests in flight
  preq,          \* password-grant requests of the token endpoint
  rotated        \* history: successful rotations per presented refresh token

legacyVars == <<legacyTokens, nextUuid, lreq, preq, rotated>>

\* --------------------------------------------------------- legacy token store

\* MongoTokenRepository.findByRefreshToken: TokenModel.findOne({ refreshToken })
findByRefreshToken(store, v) ==
  IF \E t \in store : t.refreshToken = v
    THEN CHOOSE t \in store : t.refreshToken = v
    ELSE Null

\* MongoTokenRepository.deleteByAccessToken: TokenModel.deleteOne({ accessToken })
\* (accessToken carries a unique index, so at most one record matches)
deleteByAccessToken(store, a) ==
  {t \in store : t.accessToken # a}

\* jwt.sign({ userId, clientId, scope }, secret, { expiresIn: '1h' }): the
\* signed value is a function of the claims and of the issue second
signAccessToken(c, u, t) == <<u, c, t>>

\* AuthUseCase.generateTokens: the TokenData built for (clientId, userId)
TokenData(c, u, uuid, t) ==
  [accessToken |-> signAccessToken(c, u, t),
   refreshToken |-> uuid,
   refreshTokenExpiresAt |-> t + LegacyRefreshTtl,
   clientId |-> c,
   userId |-> u]

\* tokenSchema: accessToken and refreshToken are unique
createConflicts(store, td) ==
  \E t \in store : t.accessToken = td.accessToken \/ t.refreshToken = td.refreshToken

\* the absent test alone, without the expiry comparison
refreshRejectsAbsentOnly(token, t) ==
  token = Null

\* AuthUseCase.refreshToken line 78: !token || new Date() > token.refreshTokenExpiresAt
refreshRejects(token, t) ==
  token = Null \/ t > token.refreshTokenExpiresAt

\* a refresh request: the presented value, the record findByRefreshToken
\* returned, the records its deleteOne removed, the answer
IdleLReq ==
  [pc |-> "idle", presented |-> 0, token |-> Null, removed |-> {}, result |-> "none"]

\* a password-grant request: the body fields, how far the handler got, the
\* use-case calls it made so far and the status it answered with
IdlePReq ==
  [pc |-> "idle", username |-> "", password |-> "", clientId |-> "",
   clientSecret |-> "", user |-> Null, calls |-> <<>>, status |-> 0, error |-> ""]

InitLegacy ==
  /\ legacyTokens = {}
  /\ nextUuid = 1
  /\ lreq = [r \in LReqs |-> IdleLReq]
  /\ preq = [r \in LReqs |-> IdlePReq]
  /\ rotated = [v \in Uuids |-> 0]

\* AuthUseCase.generateTokens, reached from the password, client-credentials
\* and authorization-code grants of AuthController.token
GenerateTokens(c, u) ==
  /\ nextUuid <= MaxUuid
  /\ LET td == TokenData(c, u, nextUuid, now) IN
       /\ ~createConflicts(legacyTokens, td)
       /\ legacyTokens' = legacyTokens \cup {td}
  /\ nextUuid' = nextUuid + 1
  /\ UNCHANGED <<lreq, preq, rotated>>

\* AuthController.handleRefreshTokenGrant calls authUseCase.refreshToken(v)
RefreshTokenStart(r, v) ==
  /\ lreq[r].pc \in {"idle", "done"}
  /\ lreq' = [lreq EXCEPT ![r] = [IdleLReq EXCEPT !.pc = "find", !.presented = v]]
  /\ UNCHANGED <<legacyTokens, nextUuid, preq, rotated>>

\* lines 76-80: await findByRefreshToken, then the absent / expired test
RefreshTokenFind(r) ==
  /\ lreq[r].pc = "find"
  /\ LET token == findByRefreshToken(legacyTokens, lreq[r].presented) IN
       lreq' = [lreq EXCEPT ![r] =
                  IF refreshRejects(token, now)
                    THEN [@ EXCEPT !.pc = "done", !.result = "null"]
                    ELSE [@ EXCEPT !.pc = "delete", !.token = token]]
  /\ UNCHANGED <<legacyTokens, nextUuid, preq, rotated>>

\* line 82: await deleteByAccessToken(token.accessToken)
RefreshTokenDelete(r) ==
  /\ lreq[r].pc = "delete"
  /\ legacyTokens' = deleteByAccessToken(legacyTokens, lreq[r].token.accessToken)
  /\ lreq' = [lreq EXCEPT ![r].pc = "generate",
                          ![r].removed = legacyTokens \ legacyTokens']
  /\ UNCHANGED <<nextUuid, preq, rotated>>

\* the request is over: its locals are dropped, the answer is kept
LFinish(r, res) ==
  [IdleLReq EXCEPT !.pc = "done", !.presented = lreq[r].presented, !.result = res]

\* line 84: return this.generateTokens(token.clientId, token.userId, token.scope)
RefreshTokenGenerate(r) ==
  /\ lreq[r].pc = "generate"
  /\ nextUuid <= MaxUuid
  /\ LET td == TokenData(lreq[r].token.clientId, lreq[r].token.userId, nextUuid, now) IN
       IF createConflicts(legacyTokens, td)
         THEN /\ lreq' = [lreq EXCEPT ![r] = LFinish(r, "error")]
              /\ UNCHANGED <<legacyTokens, rotated>>
         ELSE /\ legacyTokens' = legacyTokens \cup {td}
              /\ lreq' = [lreq EXCEPT ![r] = LFinish(r, "pair")]
              /\ rotated' = [rotated EXCEPT ![lreq[r].presented] = @ + 1]
  /\ nextUuid' = nextUuid + 1
  /\ UNCHANGED preq

\* ================================================================ JWT flow

UserIds == {"u1", "u2"}
Emails == {"e1", "e2"}
Passwords == {"pw", "wrong"}
GoogleIds == {"g1"}

\* domain/enums/UserStatus and domain/enums/AuthProvider
UserStatus_PENDING == "PENDING"
UserStatus_ACTIVE == "ACTIVE"
UserStatus_SUSPENDED == "SUSPENDED"
AuthProvider_LOCAL == "local"
AuthProvider_GOOGLE == "google"

\* undefined password of a social-login account
NoPassword == <<>>

\* PasswordService.hash / compare (bcrypt)
hash(p) == <<"bcrypt", p>>
compare(p, h) == h = hash(p)

\* User constructor
NewUser(id, email, provider, password, providerId) ==
  [id |-> id, email |-> email, password |-> password,
   status |-> UserStatus_PENDING, provider |-> provider,
   providerId |-> providerId, emailVerified |-> (provider # AuthProvider_LOCAL)]

\* User.activate (throws on a suspended user; verifyEmail only calls it on a
\* pending one)
activate(u) == [u EXCEPT !.status = UserStatus_ACTIVE]

\* User.suspend
suspend(u) == [u EXCEPT !.status = UserStatus_SUSPENDED]

\* User.verifyEmail
verifyEmail(u) ==
  LET v == [u EXCEPT !.emailVerified = TRUE] IN
    IF v.status = UserStatus_PENDING THEN activate(v) ELSE v

\* User.canLogin
canLogin(u) == u.status = UserStatus_ACTIVE /\ u.emailVerified

\* ------------------------------------------------------------- user store
VARIABLES
  users,      \* UserModel collection: id -> document or Null
  jwts,       \* signed tokens issued by JwtTokenService
  nextJti,    \* next CryptoUtils.generateUUID() of a jti
  areq,       \* requests of the JWT flow in flight
  issued,     \* history: the account each token pair was issued for
  exchanged,  \* history: refresh tokens that were exchanged for a pair
  loggedOut   \* history: per account, the refresh tokens that had been issued
              \* to it when its last logout returned

authVars == <<users, jwts, nextJti, areq, issued, exchanged>>

\* MongoUserRepository.findById
findById(id) == IF id \in UserIds THEN users[id] ELSE Null

\* MongoUserRepository.findByEmail: UserModel.findOne({ email })
findByEmail(e) ==
  IF \E i \in UserIds : users[i] # Null /\ users[i].email = e
    THEN users[CHOOSE i \in UserIds : users[i] # Null /\ users[i].email = e]
    ELSE Null

\* MongoUserRepository.findByProviderInfo: UserModel.findOne({ provider, providerId })
findByProviderInfo(p, pid) ==
  IF \E i \in UserIds : users[i] # Null /\ users[i].provider = p /\ users[i].providerId = pid
    THEN users[CHOOSE i \in UserIds : users[i] # Null /\ users[i].provider = p
                                       /\ users[i].providerId = pid]
    ELSE Null

\* ------------------------------------------------------------ JwtTokenService
\* environment.JWT_ACCESS_EXPIRES_IN '1h', JWT_REFRESH_EXPIRES_IN '7d', in seconds
AccessExpiresIn == 3600
RefreshExpiresIn == 604800

\* jwt.sign of generateAccessToken / generateRefreshToken: the type claim is
\* overwritten by the service, exp = iat + expiresIn
generateAccessToken(sub, jti, t) ==
  [sub |-> sub, type |-> "access", exp |-> t + AccessExpiresIn, jti |-> jti, sig |-> "ok"]

generateRefreshToken(sub, jti, t) ==
  [sub |-> sub, type |-> "refresh", exp |-> t + RefreshExpiresIn, jti |-> jti, sig |-> "ok"]

\* a token that was not signed with the service's secret
Forged == [sub |-> "u1", type |-> "access", exp |-> AccessExpiresIn, jti |-> 0, sig |-> "bad"]

\* JwtTokenService.verifyToken: jwt.verify checks the signature, issuer and
\* audience and rejects when the clock has reached exp
verifyToken(tok, t) == tok.sig = "ok" /\ t < tok.exp

\* ----------------------------------------------------------------- errors
Err(name, statusCode, message) ==
  [name |-> name, statusCode |-> statusCode, message |-> message]

Ok == Err("ok", 200, <<>>)
NoResult == Err("none", 0, <<>>)
UserNotFoundException(identifier) ==
  Err("UserNotFoundException", 404, <<"User not found: ", identifier>>)
InvalidCredentialsException == Err("InvalidCredentialsException", 401, <<"Invalid email or password">>)
EmailNotVerifiedException == Err("EmailNotVerifiedException", 403, <<"Email address has not been verified">>)
InvalidTokenException(tokenType) == Err("InvalidTokenException", 401, <<"Invalid ", tokenType, " token">>)
PlainError(message) == Err("Error", 500, <<message>>)
TokenServiceError(message) == Err("TokenServiceError", 500, <<message>>)
RepositoryError(message) == Err("RepositoryError", 500, <<message>>)
AuthenticationError(message) == Err("AuthenticationError", 401, <<message>>)

\* ------------------------------------------- JwtTokenService: the sign calls
Issuer == "pelagornis-oauth"
Audience == "pelagornis-app"
TokenTypes == {"access", "refresh"}

\* the TokenPayload values the callers hand to the service
TokenPayloads == [sub : UserIds, email : Emails, type : TokenTypes]

\* lines 56-62 and 97-103: the object handed to jwt.sign; the service writes
\* its own type, a fresh jti and the iss and aud claims into it
tokenPayload(payload, kind, jti) ==
  [sub |-> payload.sub, email |-> payload.email, type |-> kind, jti |-> jti,
   iss |-> Issuer, aud |-> Audience]

\* lines 64-69 and 105-110: the options handed to jwt.sign
signOptions(kind) ==
  [expiresIn |-> IF kind = "access" THEN AccessExpiresIn ELSE RefreshExpiresIn,
   issuer |-> Issuer, audience |-> Audience, algorithm |-> "HS256"]

\* jsonwebtoken (package.json "^9.0.2"): the claims that an option sets. A
\* claim may be given in the payload or by its option, not in both places:
\* sign() then fails with 'Bad "options.audience" option. The payload already
\* has an "aud" property.'
OptionsToPayload ==
  {<<"audience", "aud">>, <<"issuer", "iss">>, <<"subject", "sub">>, <<"jwtid", "jti">>}

jwtSignRefuses(payload, options) ==
  \E oc \in OptionsToPayload : oc[1] \in DOMAIN options /\ oc[2] \in DOMAIN payload

\* generateAccessToken / generateRefreshToken as called: the try block of
\* lines 50-74 (91-115) and the catch of lines 75-87 (116-128)
sign(payload, kind, jti, t) ==
  IF jwtSignRefuses(tokenPayload(payload, kind, jti), signOptions(kind))
    THEN TokenServiceError(IF kind = "access" THEN "Failed to generate access token"
                                              ELSE "Failed to generate refresh token")
    ELSE IF kind = "access" THEN generateAccessToken(payload.sub, jti, t)
                            ELSE generateRefreshToken(payload.sub, jti, t)

\* a returned token string, as opposed to a thrown error: three non-empty
\* parts (ValidationUtils.isValidJWTFormat)
IsToken(x) == "sig" \in DOMAIN x

\* verifyToken as called: the decoded payload, or the TokenServiceError the
\* catch block makes of the JsonWebTokenError / TokenExpiredError of jwt.verify
verifiedPayload(tok, t) ==
  IF IsToken(tok) /\ verifyToken(tok, t)
    THEN [sub |-> tok.sub, type |-> tok.type, jti |-> tok.jti, exp |-> tok.exp]
    ELSE TokenServiceError("Invalid or malformed token")

AReqs == 1..MaxAReq

IdleAReq ==
  [op |-> "none", pc |-> "idle", email |-> "", password |-> "", googleId |-> "",
   tok |-> Null, user |-> Null, result |-> NoResult, attached |-> "",
   after |-> FALSE, cause |-> ""]

\* a slot takes a new request when it is not running one; slot r + 1 is used
\* only while slot r is busy (the slots are interchangeable)
Free(r) ==
  /\ areq[r].pc \in {"idle", "done"}
  /\ r > 1 => areq[r - 1].pc \notin {"idle", "done"}

\* the request is over: its locals are dropped, the response is kept
Finish(r, res) ==
  [IdleAReq EXCEPT !.op = areq[r].op, !.pc = "done", !.result = res,
                   !.after = areq[r].after]

CanIssue == Cardinality(jwts) < 2 * MaxPairs

\* the access/refresh pair both use cases build from tokenPayload
IssuePair(u) ==
  /\ jwts' = jwts \cup {generateAccessToken(u.id, nextJti, now),
                        generateRefreshToken(u.id, nextJti + 1, now)}
  /\ nextJti' = nextJti + 2
  /\ issued' = issued \cup {[sub |-> u.id, status |-> u.status,
                             emailVerified |-> u.emailVerified]}

InitAuth ==
  /\ \E verified \in BOOLEAN :
       LET u == NewUser("u1", "e1", AuthProvider_LOCAL, hash("pw"), "") IN
         users = [i \in UserIds |->
                    IF i = "u1" THEN (IF verified THEN verifyEmail(u) ELSE u) ELSE Null]
  /\ jwts = {}
  /\ nextJti = 1
  /\ areq = [r \in AReqs |-> IdleAReq]
  /\ issued = {}
  /\ exchanged = {}
  /\ loggedOut = [i \in UserIds |-> {}]

\* the other machines start without accounts and without JWTs
InitNoAuth ==
  /\ users = [i \in UserIds |-> Null]
  /\ jwts = {}
  /\ nextJti = 1
  /\ areq = [r \in AReqs |-> IdleAReq]
  /\ issued = {}
  /\ exchanged = {}
  /\ loggedOut = [i \in UserIds |-> {}]

\* admin action of the account state machine: User.suspend, then update
Suspend(i) ==
  /\ users[i] # Null
  /\ users[i].status # UserStatus_SUSPENDED
  /\ users' = [users EXCEPT ![i] = suspend(@)]
  /\ UNCHANGED <<jwts, nextJti, areq, issued, exchanged>>

\* ------------------------------------------------------ LoginUseCase.execute
LoginStart(r, e, p) ==
  /\ Free(r)
  /\ areq' = [areq EXCEPT ![r] = [IdleAReq EXCEPT !.op = "login", !.pc = "l_find",
                                                  !.email = e, !.password = p]]
  /\ UNCHANGED <<users, jwts, nextJti, issued, exchanged>>

\* lines 32-45: await findByEmail; absent user, social-only account
LoginFind(r) ==
  /\ areq[r].pc = "l_find"
  /\ LET user == findByEmail(areq[r].email) IN
       areq' = [areq EXCEPT ![r] =
         IF user = Null
           THEN [Finish(r, UserNotFoundException(areq[r].email)) EXCEPT !.cause = "nouser"]
         ELSE IF user.password = NoPassword
           THEN Finish(r, InvalidCredentialsException)
         ELSE [@ EXCEPT !.pc = "l_compare", !.user = user]]
  /\ UNCHANGED <<users, jwts, nextJti, issued, exchanged>>

\* lines 47-72: await compare; wrong password, unverified email, canLogin
LoginCompare(r) ==
  /\ areq[r].pc = "l_compare"
  /\ LET user == areq[r].user IN
       areq' = [areq EXCEPT ![r] =
         IF ~compare(areq[r].password, user.password)
           THEN [Finish(r, InvalidCredentialsException) EXCEPT !.cause = "badpassword"]
         ELSE IF ~user.emailVerified
           THEN Finish(r, EmailNotVerifiedException)
         ELSE IF ~canLogin(user)
           THEN Finish(r, PlainError("User account is not active"))
         ELSE [@ EXCEPT !.pc = "l_update"]]
  /\ UNCHANGED <<users, jwts, nextJti, issued, exchanged>>

\* MongoUserRepository.update: findByIdAndUpdate writes every field of the
\* entity the caller holds
updateUser(u) == [users EXCEPT ![u.id] = u]

\* line 73: await userRepository.update(user)
LoginUpdate(r) ==
  /\ areq[r].pc = "l_update"
  /\ users' = updateUser(areq[r].user)
  /\ areq' = [areq EXCEPT ![r].pc = "l_issue"]
  /\ UNCHANGED <<jwts, nextJti, issued, exchanged>>

\* lines 76-111: generateAccessToken, generateRefreshToken, response
LoginIssue(r) ==
  /\ areq[r].pc = "l_issue"
  /\ CanIssue
  /\ IssuePair(areq[r].user)
  /\ areq' = [areq EXCEPT ![r] = Finish(r, Ok)]
  /\ UNCHANGED <<users, exchanged>>

\* ------------------------------------------------- GoogleAuthUseCase.execute
GoogleStart(r, g, e) ==
  /\ Free(r)
  /\ areq' = [areq EXCEPT ![r] = [IdleAReq EXCEPT !.op = "google", !.pc = "g_findp",
                                                  !.googleId = g, !.email = e]]
  /\ UNCHANGED <<users, jwts, nextJti, issued, exchanged>>

\* line 183: await findByProviderInfo(GOOGLE, googleId); a user found here is
\* a Google account, so lines 189-214 are skipped and updateLastLogin follows
GoogleFindProvider(r) ==
  /\ areq[r].pc = "g_findp"
  /\ LET user == findByProviderInfo(AuthProvider_GOOGLE, areq[r].googleId) IN
       areq' = [areq EXCEPT ![r] =
         IF user = Null THEN [@ EXCEPT !.pc = "g_finde"]
         ELSE IF user.provider = AuthProvider_LOCAL
           THEN Finish(r, PlainError("Account linking not implemented"))
         ELSE [@ EXCEPT !.pc = "g_update", !.user = user]]
  /\ UNCHANGED <<users, jwts, nextJti, issued, exchanged>>

\* lines 186-214: await findByEmail; create a new verified Google user, or
\* refuse to link a local account, or go on with the account found
GoogleFindEmail(r) ==
  /\ areq[r].pc = "g_finde"
  /\ \E i \in UserIds : users[i] = Null
  /\ LET user == findByEmail(areq[r].email)
         id == CHOOSE i \in UserIds : users[i] = Null IN
       areq' = [areq EXCEPT ![r] =
         IF user = Null
           THEN [@ EXCEPT !.pc = "g_save",
                          !.user = verifyEmail(NewUser(id, areq[r].email, AuthProvider_GOOGLE,
                                                       NoPassword, areq[r].googleId))]
         ELSE IF user.provider = AuthProvider_LOCAL
           THEN Finish(r, PlainError("Account linking not implemented"))
         ELSE [@ EXCEPT !.pc = "g_update", !.user = user]]
  /\ UNCHANGED <<users, jwts, nextJti, issued, exchanged>>

\* UserSchema: _id, email and (provider, providerId) are unique
saveConflicts(u) ==
  \/ users[u.id] # Null
  \/ \E i \in UserIds : /\ users[i] # Null
                        /\ \/ users[i].email = u.email
                           \/ (users[i].provider = u.provider /\ users[i].providerId = u.providerId)

\* UserSchema.password: required when provider is local (validated by save)
passwordRequired(u) == u.provider = AuthProvider_LOCAL

\* MongoUserRepository.save: new UserModel(...).save() fails on a validation
\* error and on a duplicate key
saveRejects(u) ==
  \/ saveConflicts(u)
  \/ (passwordRequired(u) /\ u.password = NoPassword)

\* line 201: user = await userRepository.save(user)
GoogleSave(r) ==
  /\ areq[r].pc = "g_save"
  /\ IF saveRejects(areq[r].user)
       THEN /\ areq' = [areq EXCEPT ![r] = Finish(r, RepositoryError("Failed to save user"))]
            /\ UNCHANGED users
       ELSE /\ users' = [users EXCEPT ![areq[r].user.id] = areq[r].user]
            /\ areq' = [areq EXCEPT ![r].pc = "g_update"]
  /\ UNCHANGED <<jwts, nextJti, issued, exchanged>>

\* lines 217-218: user.updateLastLogin(); await userRepository.update(user)
GoogleUpdate(r) ==
  /\ areq[r].pc = "g_update"
  /\ users' = updateUser(areq[r].user)
  /\ areq' = [areq EXCEPT ![r].pc = "g_issue"]
  /\ UNCHANGED <<jwts, nextJti, issued, exchanged>>

\* lines 221-255: generateAccessToken, generateRefreshToken, response
GoogleIssue(r) ==
  /\ areq[r].pc = "g_issue"
  /\ CanIssue
  /\ IssuePair(areq[r].user)
  /\ areq' = [areq EXCEPT ![r] = Finish(r, Ok)]
  /\ UNCHANGED <<users, exchanged>>

\* ----------------------------------------------- RefreshTokenUseCase.execute
\* the tokens a caller can present: every token issued so far, or a forgery
Presentable == jwts \cup {Forged}

RefreshStart(r, tok) ==
  /\ Free(r)
  /\ areq' = [areq EXCEPT ![r] = [IdleAReq EXCEPT !.op = "refresh", !.pc = "r_verify",
                                                  !.tok = tok,
                                                  !.after = (tok.jti \in exchanged)]]
  /\ UNCHANGED <<users, jwts, nextJti, issued, exchanged>>

\* lines 31-39: await verifyToken, payload.type; every failure is rethrown as
\* InvalidTokenException('refresh') by the catch of line 80
RefreshVerify(r) ==
  /\ areq[r].pc = "r_verify"
  /\ areq' = [areq EXCEPT ![r] =
       IF ~verifyToken(areq[r].tok, now) \/ areq[r].tok.type # "refresh"
         THEN Finish(r, InvalidTokenException("refresh"))
         ELSE [@ EXCEPT !.pc = "r_find"]]
  /\ UNCHANGED <<users, jwts, nextJti, issued, exchanged>>

\* lines 41-53: await findById(payload.sub), canLogin
RefreshFindUser(r) ==
  /\ areq[r].pc = "r_find"
  /\ LET user == findById(areq[r].tok.sub) IN
       areq' = [areq EXCEPT ![r] =
         IF user = Null \/ ~canLogin(user)
           THEN Finish(r, InvalidTokenException("refresh"))
           ELSE [@ EXCEPT !.pc = "r_issue", !.user = user]]
  /\ UNCHANGED <<users, jwts, nextJti, issued, exchanged>>

\* lines 56-78: generateAccessToken, generateRefreshToken, response; the
\* presented token is not recorded anywhere
RefreshIssue(r) ==
  /\ areq[r].pc = "r_issue"
  /\ CanIssue
  /\ IssuePair(areq[r].user)
  /\ exchanged' = exchanged \cup {areq[r].tok.jti}
  /\ areq' = [areq EXCEPT ![r] = Finish(r, Ok)]
  /\ UNCHANGED users

\* ------------------------------------ AuthenticationMiddleware.authenticate
\* lines 18-33: tok = Null stands for a missing, non-Bearer or empty header
GateStart(r, tok) ==
  /\ Free(r)
  /\ areq' = [areq EXCEPT ![r] =
       IF tok = Null
         THEN [IdleAReq EXCEPT !.op = "gate", !.pc = "done",
                               !.result = AuthenticationError("Authentication token is required")]
         ELSE [IdleAReq EXCEPT !.op = "gate", !.pc = "a_verify", !.tok = tok]]
  /\ UNCHANGED <<users, jwts, nextJti, issued, exchanged>>

\* lines 36-44: await verifyToken (its TokenServiceError is passed to next),
\* payload.type !== 'access'
GateVerify(r) ==
  /\ areq[r].pc = "a_verify"
  /\ areq' = [areq EXCEPT ![r] =
       IF ~verifyToken(areq[r].tok, now)
         THEN Finish(r, TokenServiceError("Token verification failed"))
       ELSE IF areq[r].tok.type # "access"
         THEN Finish(r, AuthenticationError("Invalid authentication token"))
       ELSE [@ EXCEPT !.pc = "a_find"]]
  /\ UNCHANGED <<users, jwts, nextJti, issued, exchanged>>

\* the suspended test with a literal in the wrong case
gateBlocksLowerCase(user) == user.status = "suspended"

\* lines 54-57: user.getStatus() === 'SUSPENDED'
gateBlocks(user) == user.status = "SUSPENDED"

\* lines 47-74: await findById(payload.sub), the suspended test, req.user, next()
GateFindUser(r) ==
  /\ areq[r].pc = "a_find"
  /\ LET user == findById(areq[r].tok.sub) IN
       areq' = [areq EXCEPT ![r] =
         IF user = Null
           THEN Finish(r, AuthenticationError("Invalid authentication token"))
         ELSE IF gateBlocks(user)
           THEN Finish(r, AuthenticationError("Account has been suspended"))
         ELSE [Finish(r, Ok) EXCEPT !.attached = user.id]]
  /\ UNCHANGED <<users, jwts, nextJti, issued, exchanged>>

\* ====================================================== single-use tokens

\* CONFIG.DEFAULT_RESET_TOKEN_EXPIRY and CONFIG.DEFAULT_VERIFICATION_TOKEN_EXPIRY
DEFAULT_RESET_TOKEN_EXPIRY == 3600000
DEFAULT_VERIFICATION_TOKEN_EXPIRY == 86400000

TokenType_RESET_PASSWORD == "RESET_PASSWORD"
TokenType_REFRESH == "REFRESH"

TokenStrings == 1..MaxTok
NewPasswords == {"pw2"}

VARIABLES
  tokens,    \* TokenModel collection of the reset tokens
  vtokens,   \* VerificationTokenModel collection
  nextTok,   \* next value CryptoUtils.generateToken returns
  started,   \* number of confirm-reset and verify-email requests so far
  sreq,      \* confirm-reset and verify-email requests in flight
  mail,      \* the notification the last step failed to send and the response
             \* its operation gave, Null when no notifier failed in the step
  sout,      \* the response the last step sent to a request that presented a
             \* consumed token value, Null when it sent none
  consumed   \* history: successful consumptions per operation and token value

singleVars == <<tokens, vtokens, nextTok, started, sreq, sout, consumed, mail>>

\* DateUtils.addTime: setSeconds(getSeconds() + amount) and its siblings
addTime(date, amount, unit) ==
  CASE unit = "seconds" -> date + amount
    [] unit = "minutes" -> date + amount * 60
    [] unit = "hours" -> date + amount * 3600
    [] unit = "days" -> date + amount * 86400

\* DateUtils.isExpired: date.getTime() < Date.now()
isExpired(date, t) == date < t

\* TokenValue constructor: throws when expiresAt <= new Date()
TokenValueThrows(expiresAt, t) == expiresAt <= t

\* MongoTokenRepository.save of `new Token(id, userId, type, tokenValue)`
TokenDoc(id, userId, value, expiresAt, t) ==
  [id |-> id, userId |-> userId, type |-> TokenType_RESET_PASSWORD, value |-> value,
   expiresAt |-> expiresAt, used |-> FALSE, createdAt |-> t]

\* MongoVerificationTokenRepository.save of `new VerificationToken(...)`
VerificationTokenDoc(id, userId, email, value, expiresAt, t) ==
  [id |-> id, userId |-> userId, email |-> email, value |-> value,
   expiresAt |-> expiresAt, used |-> FALSE, createdAt |-> t]

\* Token.isValid / VerificationToken.isValid: !used && !value.isExpired()
isValid(token, t) == ~token.used /\ ~isExpired(token.expiresAt, t)

\* the throws of Token.markAsUsed / VerificationToken.verify
markAsUsedThrows(token, t) == token.used \/ isExpired(token.expiresAt, t)

\* Token.markAsUsed / VerificationToken.verify: this.used = true
markAsUsed(token) == [token EXCEPT !.used = TRUE]

\* updatePassword that forgets the new hash
updatePasswordDrops(u, hashed) == [u EXCEPT !.password = NoPassword]

\* User.updatePassword
updatePassword(u, hashed) == [u EXCEPT !.password = hashed]

\* findOne({ value, used: false }) of findByValue, and
\* findOne({ token, verified: false }) of findByToken
findByValue(store, v) ==
  IF \E d \in store : d.value = v /\ ~d.used
    THEN CHOOSE d \in store : d.value = v /\ ~d.used
    ELSE Null

\* update whose only effect is the log line
tokenUpdateDropsFlag(store, token) == store

\* update that flips the stored flag
tokenUpdateFlipsFlag(store, token) ==
  {IF d.id = token.id THEN [d EXCEPT !.used = ~@] ELSE d : d \in store}

\* findByIdAndUpdate(token.getId(), { used: token.isUsed() }) of update
tokenUpdate(store, token) ==
  {IF d.id = token.id THEN [d EXCEPT !.used = token.used] ELSE d : d \in store}

\* the TTL index { expireAfterSeconds: 0 } on expiresAt
ttlExpired(store, t) == {d \in store : d.expiresAt <= t}

TokenRepositoryError(message) == Err("TokenRepositoryError", 500, <<message>>)
VerificationTokenRepositoryError(message) ==
  Err("VerificationTokenRepositoryError", 500, <<message>>)
AlreadyVerified == Err("ok", 200, <<"Email has already been verified">>)
EmailServiceError(message) == Err("EmailServiceError", 500, <<message>>)

\* the normal returns of ResetPasswordUseCase (lines 109-126) and of
\* RegisterUseCase (lines 96-106)
ResetPasswordResponse(emailSent) ==
  [name |-> "ok", statusCode |-> 200,
   message |-> <<"If an account with that email exists, a password reset link has been sent.">>,
   emailSent |-> emailSent]
RegisterResponse ==
  [name |-> "ok", statusCode |-> 200,
   message |-> <<"Registration successful. Please check your email to verify your account.">>,
   verificationEmailSent |-> TRUE]

\* a notifier whose failure leaves the handler through its outer catch
afterNotificationRethrows(sent, response, responseWhenFailed) ==
  IF sent THEN response ELSE EmailServiceError("Failed to send email")

\* try { await this.emailService.send...() } catch (emailError) { logger.error }:
\* the failure is logged and the handler goes on to the response it gives then
afterNotification(sent, response, responseWhenFailed) ==
  IF sent THEN response ELSE responseWhenFailed

\* what a step whose notifier failed leaves to be observed
Notified(op, to, sent, response) ==
  IF sent THEN Null ELSE [op |-> op, to |-> to, at |-> now, result |-> response]

IdleSReq ==
  [op |-> "none", pc |-> "idle", password |-> "", token |-> Null,
   user |-> Null, result |-> NoResult, after |-> FALSE]

\* the requests in flight are a bag of their locals: the server keeps no order
\* among them and takes any number at once; a run has at most MaxSReq requests
SFree == started < MaxSReq

\* the request is over with response res
SFinish(rec, res) == [rec EXCEPT !.pc = "done", !.result = res]

\* the request with locals q (Null: a new request) goes on with locals rec, or
\* is over: it leaves the bag, and its response is observed when the request
\* had presented a token value that was consumed before
SMove(q, rec) ==
  /\ started' = (IF q = Null THEN started + 1 ELSE started)
  /\ sreq' = (IF q = Null THEN sreq ELSE sreq (-) SetToBag({q}))
                (+) (IF rec.pc = "done" THEN EmptyBag ELSE SetToBag({rec}))
  /\ sout' = IF rec.pc = "done" /\ rec.after
               THEN [op |-> rec.op, result |-> rec.result]
               ELSE Null

\* a step that sends no notification
SAdvance(q, rec) == SMove(q, rec) /\ mail' = Null

\* the state after u1 has registered at time 0 (RegisterUseCase.execute): the
\* account is pending and one verification token is out
InitSingle ==
  /\ users = [i \in UserIds |->
                IF i = "u1" THEN NewUser("u1", "e1", AuthProvider_LOCAL, hash("pw"), "")
                            ELSE Null]
  /\ jwts = {}
  /\ nextJti = 1
  /\ areq = [r \in AReqs |-> IdleAReq]
  /\ issued = {}
  /\ exchanged = {}
  /\ loggedOut = [i \in UserIds |-> {}]
  /\ tokens = {}
  /\ vtokens = {VerificationTokenDoc(1, "u1", "e1", 1,
                   addTime(0, DEFAULT_VERIFICATION_TOKEN_EXPIRY, "seconds"), 0)}
  /\ nextTok = 2
  /\ started = 0
  /\ sreq = EmptyBag
  /\ sout = Null
  /\ mail = Null
  /\ consumed = [k \in {"confirm", "verify"} \X TokenStrings |-> 0]

\* the other machines start with empty token collections
InitNoSingle ==
  /\ tokens = {}
  /\ vtokens = {}
  /\ nextTok = 1
  /\ started = 0
  /\ sreq = EmptyBag
  /\ sout = Null
  /\ mail = Null
  /\ consumed = [k \in {"confirm", "verify"} \X TokenStrings |-> 0]

\* ResetPasswordUseCase.execute lines 57-96: findByEmail, the OAuth test, the
\* new token and its save, then lines 98-127: the reset e-mail, whose failure
\* only changes emailSent in the response
ResetPasswordExecute(e, sent) ==
  /\ nextTok <= MaxTok
  /\ LET user == findByEmail(e) IN
       /\ user # Null
       /\ user.provider = AuthProvider_LOCAL
       /\ tokens' = tokens \cup
            {TokenDoc(nextTok, user.id, nextTok,
                      addTime(now, DEFAULT_RESET_TOKEN_EXPIRY, "seconds"), now)}
  /\ nextTok' = nextTok + 1
  /\ sout' = Null
  /\ mail' = Notified("reset", e, sent,
                afterNotification(sent, ResetPasswordResponse(TRUE),
                                  ResetPasswordResponse(FALSE)))
  /\ UNCHANGED <<users, vtokens, started, sreq, consumed>>

\* RegisterUseCase.execute lines 32-108: findByEmail (an existing address ends
\* the request with UserAlreadyExistsException and no write), hash, the new
\* local account and its save, the verification token and its save, the
\* verification e-mail whose failure is only logged, the response
RegisterExecute(e, p, sent) ==
  /\ nextTok <= MaxTok
  /\ findByEmail(e) = Null
  /\ \E i \in UserIds : users[i] = Null
  /\ LET id == CHOOSE i \in UserIds : users[i] = Null
         user == NewUser(id, e, AuthProvider_LOCAL, hash(p), "") IN
       /\ ~saveRejects(user)
       /\ users' = [users EXCEPT ![id] = user]
       /\ vtokens' = vtokens \cup
            {VerificationTokenDoc(nextTok, id, e, nextTok,
               addTime(now, DEFAULT_VERIFICATION_TOKEN_EXPIRY, "seconds"), now)}
  /\ nextTok' = nextTok + 1
  /\ sout' = Null
  /\ mail' = Notified("register", e, sent,
                afterNotification(sent, RegisterResponse, RegisterResponse))
  /\ UNCHANGED <<jwts, nextJti, areq, issued, exchanged, tokens, started, sreq, consumed>>

\* UpdateUserUseCase.execute lines 29-80 with both passwords given: findById,
\* the test for an account without password, compare, hash, updatePassword
\* and userRepository.update (a refused request writes nothing)
UpdateUserExecute(i, currentPassword, newPassword) ==
  /\ users[i] # Null
  /\ users[i].password # NoPassword
  /\ compare(currentPassword, users[i].password)
  /\ users' = updateUser(updatePassword(users[i], hash(newPassword)))
  /\ sout' = Null
  /\ mail' = Null
  /\ UNCHANGED <<jwts, nextJti, areq, issued, exchanged, tokens, vtokens, nextTok,
                 started, sreq, consumed>>

\* the TTL monitor of MongoDB removes the documents whose expiresAt has passed
TtlMonitor ==
  /\ ttlExpired(tokens, now) \cup ttlExpired(vtokens, now) # {}
  /\ tokens' = tokens \ ttlExpired(tokens, now)
  /\ vtokens' = vtokens \ ttlExpired(vtokens, now)
  /\ sout' = Null
  /\ mail' = Null
  /\ UNCHANGED <<users, nextTok, started, sreq, consumed>>

\* MongoTokenRepository.deleteByUserId: TokenModel.deleteMany({ userId, type })
deleteByUserId(store, userId, type) ==
  {d \in store : ~(d.userId = userId /\ d.type = type)}

\* LogoutUseCase.execute (UpdateUserUseCase.ts lines 159-189): the user-id
\* tests, await deleteByUserId(userId, TokenType.REFRESH), the response
LogoutExecute(u) ==
  /\ tokens' = deleteByUserId(tokens, u, TokenType_REFRESH)
  /\ loggedOut' = [loggedOut EXCEPT ![u] =
                     {t.jti : t \in {x \in jwts : x.sub = u /\ x.type = "refresh"}}]
  /\ sout' = Null
  /\ mail' = Null
  /\ UNCHANGED <<vtokens, nextTok, started, sreq, consumed>>

\* ------------------------------------------ ConfirmResetPasswordUseCase.execute
\* lines 146-158: the request arrives; await findByValue (mapToEntity builds the
\* TokenValue), then !token || !token.isValid() || type !== RESET_PASSWORD
ConfirmStart(v, p) ==
  /\ SFree
  /\ LET doc == findByValue(tokens, v)
         rec == [IdleSReq EXCEPT !.op = "confirm", !.password = p,
                                 !.after = (consumed[<<"confirm", v>>] > 0)] IN
       SAdvance(Null,
         IF doc = Null
           THEN SFinish(rec, InvalidTokenException("reset password"))
         ELSE IF TokenValueThrows(doc.expiresAt, now)
           THEN SFinish(rec, TokenRepositoryError("Failed to find token by value"))
         ELSE IF ~isValid(doc, now) \/ doc.type # TokenType_RESET_PASSWORD
           THEN SFinish(rec, InvalidTokenException("reset password"))
         ELSE [rec EXCEPT !.pc = "c_user", !.token = doc])
  /\ UNCHANGED <<users, tokens, vtokens, nextTok, consumed>>

\* lines 160-175: await findById(token.getUserId()), await hash,
\* user.updatePassword, token.markAsUsed()
ConfirmFindUser(q) ==
  /\ q \in BagToSet(sreq)
  /\ q.pc = "c_user"
  /\ LET user == findById(q.token.userId) IN
       SAdvance(q,
         IF user = Null
           THEN SFinish(q, UserNotFoundException(q.token.userId))
         ELSE IF markAsUsedThrows(q.token, now)
           THEN SFinish(q, PlainError("Cannot use expired token"))
         ELSE [q EXCEPT !.pc = "c_uupd",
                        !.user = updatePassword(user, hash(q.password)),
                        !.token = markAsUsed(q.token)])
  /\ UNCHANGED <<users, tokens, vtokens, nextTok, consumed>>

\* line 177: await userRepository.update(user)
ConfirmUpdateUser(q) ==
  /\ q \in BagToSet(sreq)
  /\ q.pc = "c_uupd"
  /\ users' = updateUser(q.user)
  /\ SAdvance(q, [q EXCEPT !.pc = "c_tupd"])
  /\ UNCHANGED <<tokens, vtokens, nextTok, consumed>>

\* line 178: await tokenRepository.update(token); update throws when the
\* document is gone, and when mapToEntity rejects the document it has written
ConfirmUpdateToken(q) ==
  /\ q \in BagToSet(sreq)
  /\ q.pc = "c_tupd"
  /\ tokens' = tokenUpdate(tokens, q.token)
  /\ IF (\A d \in tokens : d.id # q.token.id)
          \/ TokenValueThrows(q.token.expiresAt, now)
       THEN /\ SAdvance(q, SFinish(q, TokenRepositoryError("Failed to update token")))
            /\ UNCHANGED consumed
       ELSE /\ SAdvance(q, SFinish(q, Ok))
            /\ consumed' = [consumed EXCEPT ![<<"confirm", q.token.value>>] = @ + 1]
  /\ UNCHANGED <<users, vtokens, nextTok>>

\* --------------------------------------------------- VerifyEmailUseCase.execute
\* lines 19-33: the request arrives; await findByToken, then
\* !verificationToken || !isValid()
VerifyStart(v) ==
  /\ SFree
  /\ LET doc == findByValue(vtokens, v)
         rec == [IdleSReq EXCEPT !.op = "verify",
                                 !.after = (consumed[<<"verify", v>>] > 0)] IN
       SAdvance(Null,
         IF doc = Null
           THEN SFinish(rec, InvalidTokenException("verification"))
         ELSE IF TokenValueThrows(doc.expiresAt, now)
           THEN SFinish(rec, VerificationTokenRepositoryError(
                               "Failed to find verification token by token"))
         ELSE IF ~isValid(doc, now)
           THEN SFinish(rec, InvalidTokenException("verification"))
         ELSE [rec EXCEPT !.pc = "v_user", !.token = doc])
  /\ UNCHANGED <<users, tokens, vtokens, nextTok, consumed>>

\* lines 35-61: await findById, the already-verified return, verify(),
\* user.verifyEmail()
VerifyFindUser(q) ==
  /\ q \in BagToSet(sreq)
  /\ q.pc = "v_user"
  /\ LET user == findById(q.token.userId) IN
       SAdvance(q,
         IF user = Null
           THEN SFinish(q, UserNotFoundException(q.token.userId))
         ELSE IF user.emailVerified
           THEN SFinish(q, AlreadyVerified)
         ELSE IF markAsUsedThrows(q.token, now)
           THEN SFinish(q, PlainError("Verification token has expired"))
         ELSE [q EXCEPT !.pc = "v_tupd", !.user = verifyEmail(user),
                        !.token = markAsUsed(q.token)])
  /\ UNCHANGED <<users, tokens, vtokens, nextTok, consumed>>

\* line 63: await verificationTokenRepository.update(verificationToken)
VerifyUpdateToken(q) ==
  /\ q \in BagToSet(sreq)
  /\ q.pc = "v_tupd"
  /\ vtokens' = tokenUpdate(vtokens, q.token)
  /\ SAdvance(q,
       IF (\A d \in vtokens : d.id # q.token.id)
            \/ TokenValueThrows(q.token.expiresAt, now)
         THEN SFinish(q, VerificationTokenRepositoryError(
                                 "Failed to update verification token"))
         ELSE [q EXCEPT !.pc = "v_uupd"])
  /\ UNCHANGED <<users, tokens, nextTok, consumed>>

\* lines 64-97: await userRepository.update(user), the welcome e-mail whose
\* failure is only logged, the response
VerifyUpdateUser(q, sent) ==
  /\ q \in BagToSet(sreq)
  /\ q.pc = "v_uupd"
  /\ users' = updateUser(q.user)
  /\ SMove(q, SFinish(q, afterNotification(sent, Ok, Ok)))
  /\ mail' = Notified("welcome", q.user.email, sent, afterNotification(sent, Ok, Ok))
  /\ consumed' = [consumed EXCEPT ![<<"verify", q.token.value>>] = @ + 1]
  /\ UNCHANGED <<tokens, vtokens, nextTok>>

\* ============================================================ rate limiter
\* (dates of this machine are milliseconds)

\* environment.RATE_LIMIT_WINDOW_MS and RATE_LIMIT_MAX_REQUESTS (defaults)
RATE_LIMIT_WINDOW_MS == 900000
RATE_LIMIT_MAX_REQUESTS == 100
\* the period of setInterval(cleanupExpiredEntries) in the constructor
CleanupIntervalMs == 60000

\* RateLimitOptions of the pre-configured limiters general, auth,
\* passwordReset and emailVerification
Policy(name) ==
  CASE name = "general" ->
         [windowMs |-> RATE_LIMIT_WINDOW_MS, maxRequests |-> RATE_LIMIT_MAX_REQUESTS,
          skipSuccessfulRequests |-> FALSE, skipFailedRequests |-> FALSE]
    [] name = "auth" ->
         [windowMs |-> 15 * 60 * 1000, maxRequests |-> 5,
          skipSuccessfulRequests |-> TRUE, skipFailedRequests |-> FALSE]
    [] name = "passwordReset" ->
         [windowMs |-> 60 * 60 * 1000, maxRequests |-> 3,
          skipSuccessfulRequests |-> FALSE, skipFailedRequests |-> FALSE]
    [] name = "emailVerification" ->
         [windowMs |-> 5 * 60 * 1000, maxRequests |-> 3,
          skipSuccessfulRequests |-> FALSE, skipFailedRequests |-> FALSE]

PolicyNames == {"general", "auth", "passwordReset", "emailVerification"}

\* the limiters a request passes, in order: router.use(general) of
\* routes/index.ts, then the limiter of the route
Chain(route) ==
  CASE route = "login" -> <<"general", "auth">>
    [] route = "forgot-password" -> <<"general", "passwordReset">>
    [] route = "verify-email" -> <<"general", "emailVerification">>

Routes == {"login", "forgot-password", "verify-email"}
Ips == {"ip1", "ip2"}

VARIABLES
  store,     \* RateLimitMiddleware.store: key -> record or Null
  rreq,      \* bag of the requests that passed the limiters and wait for their
             \* response: of each, the res.send wrappers it carries
  windows,   \* history: per key, the login limiter's current window as its
             \* caller counts it: its start, the number of requests that
             \* reached the limiter in it and the decision on the last of them
  arrivals,  \* number of requests so far
  rout,      \* what the limiter did last on its own: the 429 answer it sent, or
             \* a sweep; Null after it passed a request on
  expected   \* history: per key, the increments made on the stored record
             \* less the decrements its res.send wrappers made

rateVars == <<store, rreq, windows, arrivals, rout, expected>>

\* lines 50-57: !record || record.resetTime <= windowStart
startsNewRecord(record, t, windowMs) ==
  record = Null \/ record.resetTime <= t - windowMs

\* an increment that does not reach the record
incrementLost(record) == record

\* line 60: record.count++
increment(record) == [record EXCEPT !.count = @ + 1]

\* line 70: record.count > maxRequests
limitExceeded(count, maxRequests) == count > maxRequests

\* line 80: Math.ceil((record.resetTime - now) / 1000)
retryAfter(resetTime, t) ==
  IF resetTime - t > 0 THEN (resetTime - t + 999) \div 1000 ELSE -((t - resetTime) \div 1000)

\* lines 50-70 for one limiter and the record it finds: the record it leaves
\* and its decision
decision(name, old, t) ==
  LET p == Policy(name)
      base == IF startsNewRecord(old, t, p.windowMs)
                THEN [count |-> 0, resetTime |-> t + p.windowMs] ELSE old
      record == increment(base)
  IN [record |-> record, exceeded |-> limitExceeded(record.count, p.maxRequests)]

\* the window the limiter's caller counts in: it starts with the first
\* request and lasts windowMs
countInWindow(w, t, windowMs, admitted) ==
  IF w = Null \/ t >= w.start + windowMs
    THEN [start |-> t, n |-> 1, admitted |-> admitted]
    ELSE [w EXCEPT !.n = @ + 1, !.admitted = admitted]

\* lines 106-117: the res.send wrappers of the limiters that admitted the
\* request; a wrapper decrements the record object it closed over, which is
\* the stored one only while the key still maps to it (the records of a key
\* have strictly increasing resetTime, which so names the object)
fireHooks(st, hooks, statusCode) ==
  [k \in Ips |->
     IF st[k] = Null THEN Null
     ELSE LET n == Cardinality({h \in hooks :
                     /\ h.key = k /\ h.rec = st[k].resetTime
                     /\ \/ (h.skipSuccessfulRequests /\ statusCode < 400)
                        \/ (h.skipFailedRequests /\ statusCode >= 400)})
          IN [st[k] EXCEPT !.count = @ - n]]

\* lines 43-120 for each limiter of the chain, in one synchronous run of the
\* middleware stack; c is the state of the run
RECURSIVE runChain(_, _, _, _)
runChain(chain, key, t, c) ==
  IF chain = <<>> \/ c.statusCode = 429 THEN c
  ELSE
    LET name == Head(chain)
        p == Policy(name)
        old == c.store[key]
        fresh == startsNewRecord(old, t, p.windowMs)
        base == IF fresh THEN [count |-> 0, resetTime |-> t + p.windowMs] ELSE old
        record == increment(base)
        exceeded == limitExceeded(record.count, p.maxRequests)
        w == countInWindow(c.windows[<<name, key>>], t, p.windowMs, ~exceeded)
        hook == [key |-> key, rec |-> record.resetTime,
                 skipSuccessfulRequests |-> p.skipSuccessfulRequests,
                 skipFailedRequests |-> p.skipFailedRequests]
        wired == ~exceeded /\ (p.skipSuccessfulRequests \/ p.skipFailedRequests)
        st1 == [c.store EXCEPT ![key] = record]
    IN runChain(Tail(chain), key, t,
         [store |-> IF exceeded THEN fireHooks(st1, c.hooks, 429) ELSE st1,
          windows |-> IF name = "auth" THEN [c.windows EXCEPT ![<<name, key>>] = w]
                                       ELSE c.windows,
          expected |-> (IF fresh THEN 0 ELSE c.expected) + 1
                         - (IF exceeded
                              THEN st1[key].count - fireHooks(st1, c.hooks, 429)[key].count
                              ELSE 0),
          hooks |-> IF wired THEN c.hooks \cup {hook} ELSE c.hooks,
          statusCode |-> IF exceeded THEN 429 ELSE 0,
          retryAfter |-> IF exceeded THEN retryAfter(record.resetTime, t) ELSE 0])

\* at most MaxRReq requests wait for their response at a time
RFree == BagCardinality(rreq) < MaxRReq

InitRate ==
  /\ store = [k \in Ips |-> Null]
  /\ rreq = EmptyBag
  /\ windows = [x \in {"auth"} \X Ips |-> Null]
  /\ arrivals = 0
  /\ rout = Null
  /\ expected = [k \in Ips |-> 0]

\* a request from key for route runs through its limiters; a rejected one is
\* answered with 429 at once, an admitted one goes on to its controller; its
\* response matters to the limiters only when res.send was wrapped
Admit(key, route) ==
  /\ LET c == runChain(Chain(route), key, now,
                       [store |-> store, windows |-> windows, expected |-> expected[key],
                        hooks |-> {}, statusCode |-> 0, retryAfter |-> 0])
     IN /\ store' = c.store
        /\ windows' = c.windows
        /\ expected' = [expected EXCEPT ![key] = c.expected]
        /\ rout' = IF c.statusCode = 429
                      THEN [op |-> "reject", key |-> key, statusCode |-> c.statusCode,
                            retryAfter |-> c.retryAfter]
                      ELSE Null
        /\ rreq' = IF c.statusCode = 429 \/ c.hooks = {}
                      THEN rreq
                      ELSE rreq (+) SetToBag({c.hooks})
  /\ arrivals' = arrivals + 1

\* a run takes MaxArrivals requests
Arrive(key, route) ==
  /\ RFree
  /\ arrivals < MaxArrivals
  /\ Admit(key, route)

\* POST /login of a caller, in a run of MaxLogins logins
LoginArrive(key) ==
  /\ RFree
  /\ arrivals < MaxLogins
  /\ Admit(key, "login")

\* the controller or the error handler answers: res.status(statusCode).json()
\* reaches the wrapped res.send
Respond(hooks, statusCode) ==
  /\ hooks \in BagToSet(rreq)
  /\ store' = fireHooks(store, hooks, statusCode)
  /\ expected' = [k \in Ips |->
                    IF store[k] = Null THEN expected[k]
                    ELSE expected[k] - (store[k].count - store'[k].count)]
  /\ rreq' = rreq (-) SetToBag({hooks})
  /\ rout' = Null
  /\ UNCHANGED <<windows, arrivals>>

\* the sweep keeping the records that expire at the sweep time
isExpiredEntryStrict(record, t) == record.resetTime < t

\* line 170: record.resetTime <= now
isExpiredEntry(record, t) == record.resetTime <= t

\* cleanupExpiredEntries, run by the timer of the constructor
cleanupExpiredEntries ==
  /\ now >= CleanupIntervalMs
  /\ store' = [k \in Ips |->
                 IF store[k] # Null /\ isExpiredEntry(store[k], now) THEN Null ELSE store[k]]
  /\ expected' = [k \in Ips |-> IF store'[k] = Null THEN 0 ELSE expected[k]]
  /\ rout' = [op |-> "sweep", at |-> now]
  /\ UNCHANGED <<rreq, windows, arrivals>>

\* ------------------------------------------------- token service call sites
VARIABLES
  signIn,     \* the last generate call: payload, kind and time
  signOut,    \* what that call returned or threw
  verifyOut   \* the last verifyToken call: token, time and outcome

signVars == <<signIn, signOut, verifyOut>>

InitSign ==
  /\ signIn = Null
  /\ signOut = Null
  /\ verifyOut = Null

\* a caller asks for a token of the given kind; generateUUID() draws the jti
SignToken(kind, payload, jti) ==
  /\ signIn' = [payload |-> payload, kind |-> kind, at |-> now]
  /\ signOut' = sign(payload, kind, jti, now)
  /\ verifyOut' = Null

\* a caller verifies a token it holds: the one just signed, if there is one,
\* or a token presented by a client
VerifyTokenCall(tok) ==
  /\ verifyOut' = [tok |-> tok, at |-> now, result |-> verifiedPayload(tok, now)]
  /\ UNCHANGED <<signIn, signOut>>

\* ------------------------------------------------------ DatabaseConnection
DCalls == 1..MaxDCall

\* DatabaseConnection.maxRetries
maxRetries == 5

VARIABLES
  isConnected,         \* DatabaseConnection.isConnected
  connectionAttempts,  \* DatabaseConnection.connectionAttempts
  dcall,               \* the calls of connect(): where each is, and what
                       \* isConnected was when it returned
  emailQueue,          \* the e-mail service's emailQueue: references to items
  retries,             \* the retries field of each queued item object
  isProcessingQueue,   \* the e-mail service's isProcessingQueue
  sending,             \* the item processEmailQueue shifted and is sending
  nextMail,            \* the next item queueEmail creates
  dout                 \* the last delivery attempt: its item and its outcome

infraVars == <<isConnected, connectionAttempts, dcall, emailQueue, retries,
               isProcessingQueue, sending, nextMail, dout>>

IdleDCall == [pc |-> "idle", connected |-> FALSE]

\* the while test of line 38 and, inside the loop, connectionAttempts++ up to
\* the await of mongoose.connect; a test that fails leaves the loop and the
\* function, which then returns
loopHead(c) ==
  IF connectionAttempts < maxRetries
    THEN /\ connectionAttempts' = connectionAttempts + 1
         /\ dcall' = [dcall EXCEPT ![c].pc = "connecting"]
    ELSE /\ dcall' = [dcall EXCEPT ![c] = [pc |-> "returned", connected |-> isConnected]]
         /\ UNCHANGED connectionAttempts

\* connect() is called: lines 33-36, then the loop
ConnectCall(c) ==
  /\ dcall[c].pc \in {"idle", "returned", "thrown"}
  /\ IF isConnected
       THEN /\ dcall' = [dcall EXCEPT ![c] = [pc |-> "returned", connected |-> isConnected]]
            /\ UNCHANGED connectionAttempts
       ELSE loopHead(c)
  /\ UNCHANGED isConnected

\* lines 54-64: mongoose.connect resolves
ConnectResolves(c) ==
  /\ dcall[c].pc = "connecting"
  /\ isConnected' = TRUE
  /\ connectionAttempts' = 0
  /\ dcall' = [dcall EXCEPT ![c] = [pc |-> "returned", connected |-> TRUE]]

\* lines 66-82: mongoose.connect rejects; the catch throws when no attempt is
\* left, and otherwise waits retryDelay
ConnectRejects(c) ==
  /\ dcall[c].pc = "connecting"
  /\ dcall' = [dcall EXCEPT ![c] =
                 IF connectionAttempts >= maxRetries
                   THEN [pc |-> "thrown", connected |-> isConnected]
                   ELSE [@ EXCEPT !.pc = "waiting"]]
  /\ UNCHANGED <<isConnected, connectionAttempts>>

\* line 82: the retry delay is over, the loop goes on
RetryDelayOver(c) ==
  /\ dcall[c].pc = "waiting"
  /\ loopHead(c)
  /\ UNCHANGED isConnected

\* setupEventHandlers, lines 93-96: the 'disconnected' event of an
\* established connection
Disconnected ==
  /\ isConnected
  /\ isConnected' = FALSE
  /\ UNCHANGED <<connectionAttempts, dcall>>

InitDatabase ==
  /\ isConnected = FALSE
  /\ connectionAttempts = 0
  /\ dcall = [c \in DCalls |-> IdleDCall]

\* ------------------------------------------------------------ e-mail queue
Mails == 1..MaxMail

\* undefined where an item is expected: no item in hand, emailQueue[0] of an
\* empty queue
NoMail == 0

\* CONFIG.MAX_EMAIL_RETRIES
MAX_EMAIL_RETRIES == 3

\* queueEmail: emailQueue.push({ to, template, retries: 0 })
QueueEmail ==
  /\ nextMail <= MaxMail
  /\ emailQueue' = Append(emailQueue, nextMail)
  /\ retries' = [retries EXCEPT ![nextMail] = 0]
  /\ nextMail' = nextMail + 1
  /\ dout' = Null
  /\ UNCHANGED <<isProcessingQueue, sending>>

\* processEmailQueue lines 196-204: the guard, isProcessingQueue = true,
\* emailQueue.shift(), up to the await of sendEmailDirectly
ProcessEmailQueue ==
  /\ ~isProcessingQueue
  /\ emailQueue # <<>>
  /\ isProcessingQueue' = TRUE
  /\ sending' = Head(emailQueue)
  /\ emailQueue' = Tail(emailQueue)
  /\ dout' = Null
  /\ UNCHANGED <<retries, nextMail>>

\* lines 204-209 and 223-225: sendEmailDirectly resolves
SendResolves ==
  /\ sending # NoMail
  /\ dout' = [item |-> sending, ok |-> TRUE]
  /\ sending' = NoMail
  /\ isProcessingQueue' = FALSE
  /\ UNCHANGED <<emailQueue, retries, nextMail>>

\* the item the catch block puts back: this.emailQueue[0], lines 214-215
requeuedItem(queue, failed) ==
  IF queue = <<>> THEN NoMail ELSE Head(queue)

\* lines 210-225: sendEmailDirectly rejects; the catch block, then finally
SendRejects ==
  /\ sending # NoMail
  /\ LET emailItem == requeuedItem(emailQueue, sending) IN
       IF emailItem # NoMail /\ retries[emailItem] < MAX_EMAIL_RETRIES
         THEN /\ retries' = [retries EXCEPT ![emailItem] = @ + 1]
              /\ emailQueue' = Append(emailQueue, emailItem)
         ELSE UNCHANGED <<emailQueue, retries>>
  /\ dout' = [item |-> sending, ok |-> FALSE]
  /\ sending' = NoMail
  /\ isProcessingQueue' = FALSE
  /\ UNCHANGED nextMail

InitEmailQueue ==
  /\ emailQueue = <<>>
  /\ retries = [m \in Mails |-> 0]
  /\ isProcessingQueue = FALSE
  /\ sending = NoMail
  /\ nextMail = 1
  /\ dout = Null

InitInfra == InitDatabase /\ InitEmailQueue

\* ------------------------------------------- token endpoint, password grant

\* the Client and User collections of the legacy flow: one registered client
\* and one registered user
ClientDocs == {[clientId |-> "c1", clientSecret |-> "s1"]}
UserDocs == {[id |-> "u1", username |-> "n1", password |-> hash("pw")]}

\* the values a request body field takes; "" is a missing field
ClientIdsSent == {"c1", ""}
ClientSecretsSent == {"s1", "bad"}
UsernamesSent == {"n1", "nx"}
PasswordsSent == {"pw", "wrong"}

\* a lookup that returns the client whatever secret is presented
validateClientAnySecret(clientId, clientSecret) ==
  IF \E c \in ClientDocs : c.clientId = clientId
    THEN CHOOSE c \in ClientDocs : c.clientId = clientId
    ELSE Null

\* AuthUseCase.validateClient: findByClientId, then the secret comparison
validateClient(clientId, clientSecret) ==
  IF \E c \in ClientDocs : c.clientId = clientId /\ c.clientSecret = clientSecret
    THEN CHOOSE c \in ClientDocs : c.clientId = clientId /\ c.clientSecret = clientSecret
    ELSE Null

\* AuthUseCase.authenticateUser: findByUsername, then bcrypt.compare
authenticateUser(username, password) ==
  IF \E u \in UserDocs : u.username = username /\ compare(password, u.password)
    THEN CHOOSE u \in UserDocs : u.username = username /\ compare(password, u.password)
    ELSE Null

\* AuthController.token dispatching to handlePasswordGrant: lines 210-216,
\* the missing-parameter test; the request slots are interchangeable, so a
\* request takes the lowest free one
PasswordGrantStart(r, username, password, clientId, clientSecret) ==
  /\ preq[r].pc = "idle"
  /\ \A x \in LReqs : x < r => preq[x].pc # "idle"
  /\ LET q == [IdlePReq EXCEPT !.username = username, !.password = password,
                               !.clientId = clientId, !.clientSecret = clientSecret] IN
       preq' = [preq EXCEPT ![r] =
                  IF username = "" \/ password = "" \/ clientId = "" \/ clientSecret = ""
                    THEN [q EXCEPT !.pc = "done", !.status = 400,
                                   !.error = "Missing required parameters"]
                    ELSE [q EXCEPT !.pc = "client"]]
  /\ UNCHANGED <<legacyTokens, nextUuid, lreq, rotated>>

\* lines 218-223: await validateClient, 401 when it returns null
PasswordGrantValidateClient(r) ==
  /\ preq[r].pc = "client"
  /\ LET client == validateClient(preq[r].clientId, preq[r].clientSecret)
         q == [preq[r] EXCEPT !.calls = Append(@, "validateClient")] IN
       preq' = [preq EXCEPT ![r] =
                  IF client = Null
                    THEN [q EXCEPT !.pc = "done", !.status = 401,
                                   !.error = "Invalid client credentials"]
                    ELSE [q EXCEPT !.pc = "user"]]
  /\ UNCHANGED <<legacyTokens, nextUuid, lreq, rotated>>

\* lines 225-230: await authenticateUser, 401 when it returns null
PasswordGrantAuthenticateUser(r) ==
  /\ preq[r].pc = "user"
  /\ LET user == authenticateUser(preq[r].username, preq[r].password)
         q == [preq[r] EXCEPT !.calls = Append(@, "authenticateUser")] IN
       preq' = [preq EXCEPT ![r] =
                  IF user = Null
                    THEN [q EXCEPT !.pc = "done", !.status = 401,
                                   !.error = "Invalid user credentials"]
                    ELSE [q EXCEPT !.pc = "generate", !.user = user]]
  /\ UNCHANGED <<legacyTokens, nextUuid, lreq, rotated>>

\* lines 232-241: await generateTokens(clientId, user.id, scope) and the
\* token response; a rejected insert is caught by AuthController.token
\* (lines 112-115) and answered with 500
PasswordGrantGenerate(r) ==
  /\ preq[r].pc = "generate"
  /\ nextUuid <= MaxUuid
  /\ LET td == TokenData(preq[r].clientId, preq[r].user.id, nextUuid, now)
         q == [preq[r] EXCEPT !.calls = Append(@, "generateTokens"), !.pc = "done"] IN
       IF createConflicts(legacyTokens, td)
         THEN /\ preq' = [preq EXCEPT ![r] =
                            [q EXCEPT !.status = 500, !.error = "Internal server error"]]
              /\ UNCHANGED legacyTokens
         ELSE /\ legacyTokens' = legacyTokens \cup {td}
              /\ preq' = [preq EXCEPT ![r] = [q EXCEPT !.status = 200]]
  /\ nextUuid' = nextUuid + 1
  /\ UNCHANGED <<lreq, rotated>>

\* ------------------------------------------------------------------- clock
\* the clock advances by one unit, or to the next instant at which a stored
\* date is reached
Instants ==
  {t.refreshTokenExpiresAt : t \in legacyTokens} \cup {t.exp : t \in jwts}
    \cup {d.expiresAt : d \in tokens \cup vtokens}
    \cup {store[k].resetTime : k \in {i \in Ips : store[i] # Null}}
    \cup {store[k].resetTime + Policy(n).windowMs :
             k \in {i \in Ips : store[i] # Null}, n \in PolicyNames}

Tick ==
  /\ ticks < MaxTick
  /\ \E t \in {now + 1} \cup {i \in Instants : i > now /\ \A j \in Instants : j > now => i <= j} :
       now' = t
  /\ ticks' = ticks + 1

vars == <<now, ticks, legacyVars, authVars, singleVars, rateVars, signVars, loggedOut,
          infraVars>>

InitClock == now = 0 /\ ticks = 0

\* what the steps of each machine leave alone
NotLegacy == <<now, ticks, authVars, singleVars, rateVars, signVars, loggedOut, infraVars>>
NotAuth == <<now, ticks, legacyVars, singleVars, rateVars, signVars, loggedOut, infraVars>>
NotSingle == <<now, ticks, legacyVars, jwts, nextJti, areq, issued, exchanged, rateVars, signVars, loggedOut, infraVars>>
NotRate == <<now, ticks, legacyVars, authVars, singleVars, signVars, loggedOut, infraVars>>
NotSign == <<now, ticks, legacyVars, authVars, singleVars, rateVars, loggedOut, infraVars>>
NotClock == <<legacyVars, authVars, singleVars, rateVars, signVars, loggedOut, infraVars>>

\* the state after u1 has registered, verified the e-mail address and logged
\* in at time 0: one access/refresh pair is out
InitJwt ==
  /\ LET u == verifyEmail(NewUser("u1", "e1", AuthProvider_LOCAL, hash("pw"), "")) IN
       /\ users = [i \in UserIds |-> IF i = "u1" THEN u ELSE Null]
       /\ issued = {[sub |-> u.id, status |-> u.status, emailVerified |-> u.emailVerified]}
  /\ jwts = {generateAccessToken("u1", 1, 0), generateRefreshToken("u1", 2, 0)}
  /\ nextJti = 3
  /\ areq = [r \in AReqs |-> IdleAReq]
  /\ exchanged = {}
  /\ loggedOut = [i \in UserIds |-> {}]

LegacyNext ==
  \/ \E c \in Clients, u \in LegacyUsers : GenerateTokens(c, u) /\ UNCHANGED NotLegacy
  \/ \E r \in LReqs, v \in Uuids : RefreshTokenStart(r, v) /\ UNCHANGED NotLegacy
  \/ \E r \in LReqs : RefreshTokenFind(r) /\ UNCHANGED NotLegacy
  \/ \E r \in LReqs : RefreshTokenDelete(r) /\ UNCHANGED NotLegacy
  \/ \E r \in LReqs : RefreshTokenGenerate(r) /\ UNCHANGED NotLegacy
  \/ Tick /\ UNCHANGED NotClock

LegacyInit == InitClock /\ InitLegacy /\ InitNoAuth /\ InitNoSingle /\ InitRate /\ InitSign /\ InitInfra

SpecLegacy == LegacyInit /\ [][LegacyNext]_vars

\* the legacy flow thirty days after client c1 obtained a pair for u1 at
\* time 0: the refresh token of that pair is at its expiry date
InitAged ==
  /\ now = LegacyRefreshTtl /\ ticks = 0
  /\ legacyTokens = {TokenData("c1", "u1", 1, 0)}
  /\ nextUuid = 2
  /\ lreq = [r \in LReqs |-> IdleLReq]
  /\ preq = [r \in LReqs |-> IdlePReq]
  /\ rotated = [v \in Uuids |-> 0]

AgedInit == InitAged /\ InitNoAuth /\ InitNoSingle /\ InitRate /\ InitSign /\ InitInfra

\* the password grant of the token endpoint, with concurrent requests
GrantNext ==
  \/ \E r \in LReqs, u \in UsernamesSent, p \in PasswordsSent,
        c \in ClientIdsSent, s \in ClientSecretsSent :
       PasswordGrantStart(r, u, p, c, s) /\ UNCHANGED NotLegacy
  \/ \E r \in LReqs : PasswordGrantValidateClient(r) /\ UNCHANGED NotLegacy
  \/ \E r \in LReqs : PasswordGrantAuthenticateUser(r) /\ UNCHANGED NotLegacy
  \/ \E r \in LReqs : PasswordGrantGenerate(r) /\ UNCHANGED NotLegacy
  \/ Tick /\ UNCHANGED NotClock

GrantInit == InitClock /\ InitLegacy /\ InitNoAuth /\ InitNoSingle /\ InitRate /\ InitSign /\ InitInfra

SpecGrant == GrantInit /\ [][GrantNext]_vars

\* the request slots are interchangeable: a slot is taken once, the lowest
\* free one first; the grants that run next to the rotations are those of
\* the other user
NextFreeSlot(r) ==
  /\ lreq[r].pc = "idle"
  /\ \A q \in LReqs : q < r => lreq[q].pc # "idle"

AgedNext ==
  \/ \E c \in Clients : GenerateTokens(c, "u2") /\ UNCHANGED NotLegacy
  \/ \E r \in LReqs, v \in Uuids :
       NextFreeSlot(r) /\ RefreshTokenStart(r, v) /\ UNCHANGED NotLegacy
  \/ \E r \in LReqs : RefreshTokenFind(r) /\ UNCHANGED NotLegacy
  \/ \E r \in LReqs : RefreshTokenDelete(r) /\ UNCHANGED NotLegacy
  \/ \E r \in LReqs : RefreshTokenGenerate(r) /\ UNCHANGED NotLegacy
  \/ Tick /\ UNCHANGED NotClock

SpecAged == AgedInit /\ [][AgedNext]_vars

\* password and social login, with the admin suspending accounts
AuthNext ==
  \/ \E i \in UserIds : Suspend(i) /\ UNCHANGED NotAuth
  \/ \E r \in AReqs, e \in Emails, p \in Passwords : LoginStart(r, e, p) /\ UNCHANGED NotAuth
  \/ \E r \in AReqs : LoginFind(r) /\ UNCHANGED NotAuth
  \/ \E r \in AReqs : LoginCompare(r) /\ UNCHANGED NotAuth
  \/ \E r \in AReqs : LoginUpdate(r) /\ UNCHANGED NotAuth
  \/ \E r \in AReqs : LoginIssue(r) /\ UNCHANGED NotAuth
  \/ \E r \in AReqs, g \in GoogleIds, e \in Emails : GoogleStart(r, g, e) /\ UNCHANGED NotAuth
  \/ \E r \in AReqs : GoogleFindProvider(r) /\ UNCHANGED NotAuth
  \/ \E r \in AReqs : GoogleFindEmail(r) /\ UNCHANGED NotAuth
  \/ \E r \in AReqs : GoogleSave(r) /\ UNCHANGED NotAuth
  \/ \E r \in AReqs : GoogleUpdate(r) /\ UNCHANGED NotAuth
  \/ \E r \in AReqs : GoogleIssue(r) /\ UNCHANGED NotAuth

AuthInit == InitClock /\ InitLegacy /\ InitAuth /\ InitNoSingle /\ InitRate /\ InitSign /\ InitInfra

SpecAuth == AuthInit /\ [][AuthNext]_vars

\* token refresh and the authentication gate, with the admin suspending accounts
JwtNext ==
  \/ \E i \in UserIds : Suspend(i) /\ UNCHANGED NotAuth
  \/ \E r \in AReqs, tok \in Presentable : RefreshStart(r, tok) /\ UNCHANGED NotAuth
  \/ \E r \in AReqs : RefreshVerify(r) /\ UNCHANGED NotAuth
  \/ \E r \in AReqs : RefreshFindUser(r) /\ UNCHANGED NotAuth
  \/ \E r \in AReqs : RefreshIssue(r) /\ UNCHANGED NotAuth
  \/ \E r \in AReqs, tok \in Presentable \cup {Null} : GateStart(r, tok) /\ UNCHANGED NotAuth
  \/ \E r \in AReqs : GateVerify(r) /\ UNCHANGED NotAuth
  \/ \E r \in AReqs : GateFindUser(r) /\ UNCHANGED NotAuth
  \/ Tick /\ UNCHANGED NotClock

JwtInit == InitClock /\ InitLegacy /\ InitJwt /\ InitNoSingle /\ InitRate /\ InitSign /\ InitInfra

SpecJwt == JwtInit /\ [][JwtNext]_vars

\* what a logout leaves alone
NotLogout == <<now, ticks, legacyVars, authVars, rateVars, signVars, infraVars>>

\* no refresh request is between its arrival and its response
NoRefreshInFlight ==
  \A r \in AReqs : areq[r].pc \in {"idle", "done"}

\* token refresh and logout; a logout is taken between refresh requests, so
\* that a refresh running after it has also arrived after it; forgot-password
\* puts documents of another type into the collection logout deletes from
LogoutNext ==
  \/ \E u \in UserIds : NoRefreshInFlight /\ LogoutExecute(u) /\ UNCHANGED NotLogout
  \/ \E e \in Emails : ResetPasswordExecute(e, TRUE) /\ UNCHANGED NotSingle
  \/ \E r \in AReqs, tok \in Presentable : RefreshStart(r, tok) /\ UNCHANGED NotAuth
  \/ \E r \in AReqs : RefreshVerify(r) /\ UNCHANGED NotAuth
  \/ \E r \in AReqs : RefreshFindUser(r) /\ UNCHANGED NotAuth
  \/ \E r \in AReqs : RefreshIssue(r) /\ UNCHANGED NotAuth
  \/ Tick /\ UNCHANGED NotClock

LogoutInit == InitClock /\ InitLegacy /\ InitJwt /\ InitNoSingle /\ InitRate /\ InitSign /\ InitInfra

SpecLogout == LogoutInit /\ [][LogoutNext]_vars

\* the authentication gate alone, with the admin suspending accounts and the
\* tokens of the first login ageing
GateNext ==
  \/ \E i \in UserIds : Suspend(i) /\ UNCHANGED NotAuth
  \/ \E r \in AReqs, tok \in Presentable \cup {Null} : GateStart(r, tok) /\ UNCHANGED NotAuth
  \/ \E r \in AReqs : GateVerify(r) /\ UNCHANGED NotAuth
  \/ \E r \in AReqs : GateFindUser(r) /\ UNCHANGED NotAuth
  \/ Tick /\ UNCHANGED NotClock

GateInit == InitClock /\ InitLegacy /\ InitJwt /\ InitNoSingle /\ InitRate /\ InitSign /\ InitInfra

SpecGate == GateInit /\ [][GateNext]_vars

\* reset-password and verify-email tokens: issue, consume, expire; the
\* notifications are delivered here, their failures are taken in SpecNotify
SingleNext ==
  \/ \E e \in Emails : ResetPasswordExecute(e, TRUE) /\ UNCHANGED NotSingle
  \/ TtlMonitor /\ UNCHANGED NotSingle
  \/ \E v \in TokenStrings, p \in NewPasswords : ConfirmStart(v, p) /\ UNCHANGED NotSingle
  \/ \E q \in BagToSet(sreq) : ConfirmFindUser(q) /\ UNCHANGED NotSingle
  \/ \E q \in BagToSet(sreq) : ConfirmUpdateUser(q) /\ UNCHANGED NotSingle
  \/ \E q \in BagToSet(sreq) : ConfirmUpdateToken(q) /\ UNCHANGED NotSingle
  \/ \E v \in TokenStrings : VerifyStart(v) /\ UNCHANGED NotSingle
  \/ \E q \in BagToSet(sreq) : VerifyFindUser(q) /\ UNCHANGED NotSingle
  \/ \E q \in BagToSet(sreq) : VerifyUpdateToken(q) /\ UNCHANGED NotSingle
  \/ \E q \in BagToSet(sreq) : VerifyUpdateUser(q, TRUE) /\ UNCHANGED NotSingle
  \/ Tick /\ UNCHANGED NotClock

SingleInit == InitClock /\ InitLegacy /\ InitSingle /\ InitRate /\ InitSign /\ InitInfra

SpecSingle == SingleInit /\ [][SingleNext]_vars

\* the limiters in front of the login, forgot-password and verify-email routes
RateNext ==
  \/ \E k \in Ips, route \in Routes : Arrive(k, route) /\ UNCHANGED NotRate
  \/ \E hooks \in BagToSet(rreq), sc \in {200, 401} : Respond(hooks, sc) /\ UNCHANGED NotRate
  \/ cleanupExpiredEntries /\ UNCHANGED NotRate
  \/ Tick /\ UNCHANGED NotClock

RateInit == InitClock /\ InitLegacy /\ InitNoAuth /\ InitNoSingle /\ InitRate /\ InitSign /\ InitInfra

SpecRate == RateInit /\ [][RateNext]_vars

\* the login route alone, every login answered with success
LoginNext ==
  \/ \E k \in Ips : LoginArrive(k) /\ UNCHANGED NotRate
  \/ \E hooks \in BagToSet(rreq) : Respond(hooks, 200) /\ UNCHANGED NotRate
  \/ cleanupExpiredEntries /\ UNCHANGED NotRate
  \/ Tick /\ UNCHANGED NotClock

LoginInit == InitClock /\ InitLegacy /\ InitNoAuth /\ InitNoSingle /\ InitRate /\ InitSign /\ InitInfra

SpecLogin == LoginInit /\ [][LoginNext]_vars

\* what the infrastructure services leave alone
NotInfra == <<now, ticks, legacyVars, authVars, singleVars, rateVars, signVars, loggedOut>>

\* the database connection: calls of connect(), a database that answers or
\* not, and the connection dropping
DatabaseNext ==
  \/ \E c \in DCalls : ConnectCall(c) /\ UNCHANGED <<NotInfra, emailQueue, retries,
                                                      isProcessingQueue, sending, nextMail, dout>>
  \/ \E c \in DCalls : ConnectResolves(c) /\ UNCHANGED <<NotInfra, emailQueue, retries,
                                                          isProcessingQueue, sending, nextMail, dout>>
  \/ \E c \in DCalls : ConnectRejects(c) /\ UNCHANGED <<NotInfra, emailQueue, retries,
                                                         isProcessingQueue, sending, nextMail, dout>>
  \/ \E c \in DCalls : RetryDelayOver(c) /\ UNCHANGED <<NotInfra, emailQueue, retries,
                                                         isProcessingQueue, sending, nextMail, dout>>
  \/ Disconnected /\ UNCHANGED <<NotInfra, emailQueue, retries,
                                  isProcessingQueue, sending, nextMail, dout>>

DatabaseInit == InitClock /\ InitLegacy /\ InitNoAuth /\ InitNoSingle /\ InitRate /\ InitSign /\ InitInfra

SpecDatabase == DatabaseInit /\ [][DatabaseNext]_vars

\* the e-mail queue: senders queue messages while the processor delivers
EmailNext ==
  \/ QueueEmail /\ UNCHANGED <<NotInfra, isConnected, connectionAttempts, dcall>>
  \/ ProcessEmailQueue /\ UNCHANGED <<NotInfra, isConnected, connectionAttempts, dcall>>
  \/ SendResolves /\ UNCHANGED <<NotInfra, isConnected, connectionAttempts, dcall>>
  \/ SendRejects /\ UNCHANGED <<NotInfra, isConnected, connectionAttempts, dcall>>

EmailInit == InitClock /\ InitLegacy /\ InitNoAuth /\ InitNoSingle /\ InitRate /\ InitSign /\ InitInfra

SpecEmail == EmailInit /\ [][EmailNext]_vars

\* the timer of the constructor keeps firing: a sweep that has something to
\* discard is not put off forever
SpecRateFair ==
  RateInit /\ [][RateNext]_vars /\ WF_vars(cleanupExpiredEntries /\ UNCHANGED NotRate)

\* the operations that create or change accounts: registration, social login,
\* password change and password reset
NotAccount == <<now, ticks, legacyVars, rateVars, signVars, loggedOut, infraVars>>

\* no social login is under way (concurrent social logins are followed in
\* SpecAuth; here one social login at a time runs next to the other operations)
NoSocialLoginInFlight == \A r \in AReqs : areq[r].pc \in {"idle", "done"}

AccountNext ==
  \/ \E e \in Emails, sent \in BOOLEAN : RegisterExecute(e, "pw", sent) /\ UNCHANGED NotAccount
  \/ \E r \in AReqs, g \in GoogleIds, e \in Emails :
       NoSocialLoginInFlight /\ GoogleStart(r, g, e) /\ UNCHANGED NotAuth
  \/ \E r \in AReqs : GoogleFindProvider(r) /\ UNCHANGED NotAuth
  \/ \E r \in AReqs : GoogleFindEmail(r) /\ UNCHANGED NotAuth
  \/ \E r \in AReqs : GoogleSave(r) /\ UNCHANGED NotAuth
  \/ \E r \in AReqs : GoogleUpdate(r) /\ UNCHANGED NotAuth
  \/ \E r \in AReqs : GoogleIssue(r) /\ UNCHANGED NotAuth
  \/ \E i \in UserIds, cur \in Passwords, new \in NewPasswords :
       UpdateUserExecute(i, cur, new) /\ UNCHANGED NotAccount
  \/ \E e \in Emails, sent \in BOOLEAN : ResetPasswordExecute(e, sent) /\ UNCHANGED NotSingle
  \/ \E v \in TokenStrings, p \in NewPasswords : ConfirmStart(v, p) /\ UNCHANGED NotSingle
  \/ \E q \in BagToSet(sreq) : ConfirmFindUser(q) /\ UNCHANGED NotSingle
  \/ \E q \in BagToSet(sreq) : ConfirmUpdateUser(q) /\ UNCHANGED NotSingle
  \/ \E q \in BagToSet(sreq) : ConfirmUpdateToken(q) /\ UNCHANGED NotSingle

AccountInit == InitClock /\ InitLegacy /\ InitNoAuth /\ InitNoSingle /\ InitRate /\ InitSign /\ InitInfra

SpecAccount == AccountInit /\ [][AccountNext]_vars

\* the operations that send a message: registration, forgot-password and
\* e-mail verification, with a notifier that may fail
NotifyNext ==
  \/ \E e \in Emails, sent \in BOOLEAN : RegisterExecute(e, "pw", sent) /\ UNCHANGED NotAccount
  \/ \E e \in Emails, sent \in BOOLEAN : ResetPasswordExecute(e, sent) /\ UNCHANGED NotSingle
  \/ \E v \in TokenStrings : VerifyStart(v) /\ UNCHANGED NotSingle
  \/ \E q \in BagToSet(sreq) : VerifyFindUser(q) /\ UNCHANGED NotSingle
  \/ \E q \in BagToSet(sreq) : VerifyUpdateToken(q) /\ UNCHANGED NotSingle
  \/ \E q \in BagToSet(sreq), sent \in BOOLEAN : VerifyUpdateUser(q, sent) /\ UNCHANGED NotSingle
  \/ TtlMonitor /\ UNCHANGED NotSingle
  \/ Tick /\ UNCHANGED NotClock

NotifyInit == InitClock /\ InitLegacy /\ InitNoAuth /\ InitNoSingle /\ InitRate /\ InitSign /\ InitInfra

SpecNotify == NotifyInit /\ [][NotifyNext]_vars

\* the token service called by itself: tokens are signed, and signed or
\* presented tokens are verified, while the clock advances
SignNext ==
  \/ \E kind \in TokenTypes, payload \in TokenPayloads, jti \in Uuids :
       SignToken(kind, payload, jti) /\ UNCHANGED NotSign
  \/ \E tok \in Presentable \cup {x \in {signOut} : IsToken(x)} :
       VerifyTokenCall(tok) /\ UNCHANGED NotSign
  \/ Tick /\ UNCHANGED NotClock

SignInit == InitClock /\ InitLegacy /\ InitJwt /\ InitNoSingle /\ InitRate /\ InitSign /\ InitInfra

SpecSign == SignInit /\ [][SignNext]_vars

\* C1: for every refresh token, concurrent rotations presenting it obtain at
\* most one new pair.
RotateAtMostOnce ==
  \A v \in Uuids : rotated[v] <= 1

\* C2: for every single-use token value, the confirm-reset requests and the
\* verify-email requests that present it succeed at most once in total.
ConsumeAtMostOnce ==
  \A k \in DOMAIN consumed : consumed[k] <= 1

SecondConfirmRejected ==
  (sout # Null /\ sout.op = "confirm")
    => sout.result = InvalidTokenException("reset password")

\* C4 witness: a confirmation presenting an already consumed reset token is over
SecondConfirmDone ==
  /\ sout # Null /\ sout.op = "confirm"
  /\ \E v \in TokenStrings : consumed[<<"confirm", v>>] > 0

\* C5: a login for an unknown e-mail address and a login with a wrong password
\* end with the same rejection (same error kind, status and message).
LoginRejectionsIdentical ==
  \A r1, r2 \in AReqs :
    (/\ areq[r1].op = "login" /\ areq[r1].pc = "done" /\ areq[r1].cause = "nouser"
     /\ areq[r2].op = "login" /\ areq[r2].pc = "done" /\ areq[r2].cause = "badpassword")
      => areq[r1].result = areq[r2].result

AcceptedStrictlyBeforeExpiry ==
  [][\A r \in LReqs :
       (lreq[r].pc = "find" /\ lreq'[r].pc = "delete")
         => now < lreq'[r].token.refreshTokenExpiresAt]_vars

\* C9: a reset or verification token whose used / verified flag is true in
\* the store is never in the store again with that flag false.
UsedIsTerminal ==
  [][/\ \A d \in tokens : d.used => \A e \in tokens' : e.value = d.value => e.used
     /\ \A d \in vtokens : d.used => \A e \in vtokens' : e.value = d.value => e.used]_vars

\* C9 witness: a token is marked used in the store and a later request that
\* presented a consumed value is over
UsedTokenPresentedAgain ==
  /\ \E d \in tokens \cup vtokens : d.used
  /\ sout # Null

\* C10: a request that reaches the login limiter is admitted exactly when it
\* is one of the first five of its key in the window.
LoginFirstFiveAdmitted ==
  \A k \in Ips :
    LET w == windows[<<"auth", k>>] IN
      w # Null => (w.admitted <=> w.n <= Policy("auth").maxRequests)

\* C11: a request that arrives when now is at or past the reset time of its
\* key's record leaves the record that the first request of a fresh key would
\* leave (on some route): count restarted, window of windowMs from now.
ElapsedWindowRestarts ==
  [][\A k \in Ips :
       (/\ arrivals' = arrivals + 1 /\ store'[k] # store[k]
        /\ store[k] # Null /\ store[k].resetTime <= now)
         => \E route \in Routes :
              store'[k] =
                runChain(Chain(route), k, now,
                         [store |-> [store EXCEPT ![k] = Null], windows |-> windows,
                          expected |-> 0, hooks |-> {}, statusCode |-> 0,
                          retryAfter |-> 0]).store[k]]_vars

\* C12: a request (on whichever route it came) leaves unchanged, for its
\* caller, the record and the decision that every limiter it does not pass
\* would give next.
PoliciesIndependent ==
  [][\A k \in Ips :
       (arrivals' = arrivals + 1 /\ store'[k] # store[k])
         => \E route \in Routes :
              \A name \in PolicyNames :
                (\A i \in DOMAIN Chain(route) : Chain(route)[i] # name)
                  => decision(name, store'[k], now) = decision(name, store[k], now)]_vars

\* C13: every 429 answer of the limiter carries a retryAfter above 0.
RetryAfterPositive ==
  (rout # Null /\ rout.op = "reject") => rout.retryAfter > 0

\* C14: while a key keeps its record (same window), the count never goes down.
CountNeverDecreases ==
  [][\A k \in Ips :
       (/\ store[k] # Null /\ store'[k] # Null
        /\ store'[k].resetTime = store[k].resetTime)
         => store'[k].count >= store[k].count]_vars

\* C15: under every interleaving of arrivals and responses, the count of a
\* key's record is the number of increments made on it less the decrements of
\* its res.send wrappers: no increment is lost.
NoIncrementLost ==
  \A k \in Ips : store[k] # Null => store[k].count = expected[k]

\* C15 witness: two admitted requests of one key are in flight together and
\* the record has counted both passes of each
TwoInFlightCounted ==
  \E k \in Ips :
    /\ BagCardinality(rreq) = 2
    /\ \A hooks \in BagToSet(rreq) : \A h \in hooks : h.key = k
    /\ store[k] # Null /\ store[k].count = 4

\* C16: after a sweep every record left in the store, and every record made
\* since, has its reset time after the sweep time; and again and again the
\* store holds no record whose reset time has passed (once the timer is due),
\* so every such record is eventually discarded.
SweepLeavesNoExpired ==
  /\ [](rout # Null /\ rout.op = "sweep"
          => \A k \in Ips : store[k] # Null => store[k].resetTime > rout.at)
  /\ []<>(\A k \in Ips :
            store[k] = Null \/ store[k].resetTime > now \/ now < CleanupIntervalMs)

\* C16 witness: a sweep has discarded the records of the callers so far
SweepDiscarded ==
  /\ rout # Null /\ rout.op = "sweep"
  /\ arrivals > 0
  /\ \A k \in Ips : store[k] = Null


\* C17: a generate call returns a token, and verifying that token before its
\* expiry returns the subject of the payload and the kind that was asked for.
SignRoundTrip ==
  signIn # Null =>
    /\ IsToken(signOut)
    /\ now < signOut.exp =>
         /\ verifiedPayload(signOut, now).sub = signIn.payload.sub
         /\ verifiedPayload(signOut, now).type = signIn.kind


\* C18: every stored verification token expires 24 hours after it was
\* created and every stored reset token 1 hour after it was created (the
\* clock of these collections counts seconds).
DefaultExpiry ==
  /\ \A d \in vtokens : d.expiresAt = d.createdAt + 24 * 3600
  /\ \A d \in tokens : d.expiresAt = d.createdAt + 3600


\* C19: whenever the stored status of an account changes, the change is
\* pending to active or active to suspended; in particular no step takes an
\* account out of suspended.
StatusTransitions ==
  [][\A i \in UserIds :
       (users[i] # Null /\ users'[i] # Null /\ users'[i].status # users[i].status)
         => \/ /\ users[i].status = UserStatus_PENDING
               /\ users'[i].status = UserStatus_ACTIVE
            \/ /\ users[i].status = UserStatus_ACTIVE
               /\ users'[i].status = UserStatus_SUSPENDED]_vars


\* C20: every stored account has a password hash exactly when its provider
\* is local.
PasswordIffLocal ==
  \A i \in UserIds :
    users[i] # Null =>
      (users[i].password # NoPassword <=> users[i].provider = AuthProvider_LOCAL)

\* C20 witness: a social-login account is stored next to a local account
\* whose password was replaced by a password reset
BothKindsStored ==
  \E i, j \in UserIds :
    /\ users[i] # Null /\ users[i].provider = AuthProvider_GOOGLE
    /\ users[j] # Null /\ users[j].provider = AuthProvider_LOCAL
    /\ users[j].password = hash("pw2")
    /\ \E v \in TokenStrings : consumed[<<"confirm", v>>] > 0


\* C21: a step whose notifier failed still answers without error, and what
\* the operation stored is there: the new account and its verification token
\* (registration), the new reset token (forgot-password), the verified
\* account and the used verification token (e-mail verification).
NotificationFailureTolerated ==
  mail # Null =>
    /\ mail.result.statusCode = 200
    /\ mail.op = "register" =>
         \E i \in UserIds :
           /\ users[i] # Null /\ users[i].email = mail.to
           /\ \E d \in vtokens : d.userId = i /\ d.createdAt = mail.at /\ ~d.used
    /\ mail.op = "reset" =>
         \E d \in tokens :
           /\ d.createdAt = mail.at /\ ~d.used
           /\ users[d.userId] # Null /\ users[d.userId].email = mail.to
    /\ mail.op = "welcome" =>
         \E i \in UserIds :
           /\ users[i] # Null /\ users[i].email = mail.to
           /\ users[i].emailVerified /\ users[i].status = UserStatus_ACTIVE
           /\ \A d \in vtokens : d.userId = i => d.used

\* C21 witness: the welcome message of an e-mail verification could not be
\* sent
WelcomeNotSent ==
  mail # Null /\ mail.op = "welcome"


\* C22: a rotate request that finds the presented refresh token with its
\* expiry date behind the clock ends with the null answer, and its step
\* leaves the token collection and the uuid source as they were: no record is
\* deleted and none is created.
ExpiredRotateRejected ==
  [][\A r \in LReqs :
       LET token == findByRefreshToken(legacyTokens, lreq[r].presented) IN
         (/\ lreq[r].pc = "find" /\ lreq'[r] # lreq[r]
          /\ token # Null /\ now > token.refreshTokenExpiresAt)
           => /\ lreq'[r].pc = "done" /\ lreq'[r].result = "null"
              /\ legacyTokens' = legacyTokens /\ nextUuid' = nextUuid]_vars

\* C22 witness: a request was answered null for a stored token whose expiry
\* date has passed
ExpiredPresented ==
  \E r \in LReqs :
    LET token == findByRefreshToken(legacyTokens, lreq[r].presented) IN
      /\ lreq[r].pc = "done" /\ lreq[r].result = "null"
      /\ token # Null /\ now > token.refreshTokenExpiresAt


\* C23: a password-grant request calls generateTokens only after
\* validateClient and then authenticateUser, in that order, both having
\* accepted the credentials of the body; a request whose client credentials
\* are wrong is answered 401 without authenticateUser being called, and one
\* whose user credentials are wrong is answered 401 without generateTokens
\* being called.
PasswordGrantOrder ==
  \A r \in LReqs :
    LET q == preq[r]
        clientOk == \E c \in ClientDocs :
                      c.clientId = q.clientId /\ c.clientSecret = q.clientSecret
        userOk == \E u \in UserDocs :
                    u.username = q.username /\ u.password = hash(q.password)
        called(f) == \E i \in 1..Len(q.calls) : q.calls[i] = f
        complete == q.username # "" /\ q.password # "" /\ q.clientId # ""
                      /\ q.clientSecret # ""
    IN /\ called("generateTokens") =>
            /\ q.calls = <<"validateClient", "authenticateUser", "generateTokens">>
            /\ clientOk /\ userOk
       /\ q.status = 200 => called("generateTokens")
       /\ (complete /\ ~clientOk) =>
            /\ ~called("authenticateUser") /\ ~called("generateTokens")
            /\ q.pc = "done" => q.status = 401 /\ q.calls = <<"validateClient">>
       /\ (complete /\ clientOk /\ ~userOk) =>
            /\ ~called("generateTokens")
            /\ q.pc = "done" =>
                 q.status = 401 /\ q.calls = <<"validateClient", "authenticateUser">>

\* C23 witness: one request was granted a pair, one was refused for its
\* client credentials or for its user credentials
GrantedAndRefused ==
  \E r, x \in LReqs :
    /\ preq[r].status = 200
    /\ preq[x].status = 401
    /\ Cardinality(legacyTokens) > 0


\* C24: when a password-reset confirmation that has written the new password
\* (userRepository.update, line 177) comes to its end, whether it returns or
\* throws, the reset token it presented is stored with used = true.
PasswordChangedOnlyIfUsed ==
  [][\A q \in BagToSet(sreq) :
       (/\ q.op = "confirm" /\ q.pc = "c_tupd"
        /\ CopiesIn(q, sreq') < CopiesIn(q, sreq))
         => \E d \in tokens' : d.id = q.token.id /\ d.used]_vars


VerifiedTokenStaysConsumed ==
  [][/\ \A q \in BagToSet(sreq) :
          (/\ q.op = "verify"
           /\ CopiesIn(q, sreq') < CopiesIn(q, sreq)
           /\ \/ q.pc = "v_uupd"
              \/ /\ q.pc = "v_user"
                 /\ findById(q.token.userId) # Null
                 /\ findById(q.token.userId).emailVerified)
            => \A d \in vtokens' : d.value = q.token.value => d.used
     /\ (sout' # Null /\ sout'.op = "verify") => sout'.result.statusCode # 200]_vars

\* C26 witness: a verification has succeeded and a later request presenting
\* the same token value has been answered
VerifiedTokenPresentedAgain ==
  /\ sout # Null /\ sout.op = "verify"
  /\ \E v \in TokenStrings : consumed[<<"verify", v>>] > 0
  /\ \E d \in vtokens : d.used


\* C27: a refresh request that is answered with a new pair has removed no
\* record other than the one holding the refresh token it presented, and its
\* generateTokens step removes none.
RotationRemovesOnlyPresented ==
  [][\A r \in LReqs :
       (lreq[r].pc = "generate" /\ lreq'[r].result = "pair")
         => /\ \A t \in lreq[r].removed : t.refreshToken = lreq[r].presented
            /\ legacyTokens \subseteq legacyTokens']_vars


\* C28: while every login of every caller is answered with success, the
\* limiters of the login route reject no request.
SuccessfulLoginsNeverRejected ==
  ~(rout # Null /\ rout.op = "reject" /\ rout.statusCode = 429)


\* C29: a call of connect() that returned normally returned with
\* isConnected true; in particular no call returns while the database has
\* refused every attempt.
ReturnedMeansConnected ==
  \A c \in DCalls : dcall[c].pc = "returned" => dcall[c].connected


\* C30: a delivery attempt that fails puts the item it was sending, and no
\* other, back at the end of the queue with its retry count one higher when
\* that count was below MAX_EMAIL_RETRIES, and changes neither queue nor
\* counts otherwise.
FailedEmailRequeued ==
  [][(sending # NoMail /\ sending' = NoMail /\ dout' # Null /\ ~dout'.ok)
       => IF retries[sending] < MAX_EMAIL_RETRIES
            THEN /\ emailQueue' = Append(emailQueue, sending)
                 /\ retries' = [retries EXCEPT ![sending] = @ + 1]
            ELSE /\ emailQueue' = emailQueue
                 /\ retries' = retries]_vars

====
